---------------------------- MODULE Spec2Model ----------------------------
(***************************************************************************)
(* A model of the emotion-signal pipeline of the Emotion-Aware Tutor       *)
(* frontend: MicStreamer (src/lib/audioCapture.ts), the emotion-vector     *)
(* helpers (lib/ferMapping), the face hook useWebcamFer and the voice      *)
(* fusion hook useVoiceEmotion, with the part of the session store they    *)
(* write.                                                                  *)
(*                                                                         *)
(* Numbers.  JavaScript numbers are modelled exactly as reduced fractions  *)
(* <<n, d>> with d > 0; <<0,0>> is NaN, <<1,0>> is +Infinity and <<-1,0>>  *)
(* is -Infinity.  Audio samples and signature components are integers in   *)
(* units of 1e-4, so the thresholds of audioCapture.ts are whole    *)
(* numbers.                                                                *)
(***************************************************************************)
EXTENDS Integers, Sequences, FiniteSets, TLC

VARIABLES
    \* ---- MicStreamer (audioCapture.ts) ----
    micPc,                  \* "idle" | "acquiring" | "running": position of start()
    stream,                 \* this.stream # null
    processor,              \* this.processor # null (onaudioprocess installed)
    buffer,                 \* this.buffer: sequence of sample arrays
    samplesCollected,       \* this.samplesCollected
    chunkSeq,               \* this.chunkSeq
    lastSignature,          \* this.lastSignature (NoSig for null)
    consecutiveDuplicates,  \* this.consecutiveDuplicates
    metaOut,                \* records handed to onChunkMeta by the last callback
    chunkOut,               \* seq numbers handed to onChunk by the last callback
    winPre,                 \* per window of the last callback: the state it found, its samples
    skipRun,                \* windows skipped in a row since the last dispatch
    dupSkipRun,             \* non-silent windows skipped since the last dispatch
    lastStop,               \* the last of the start()/stop() calls, and what stop() found
    windowOut,              \* the windows extracted by the last callback, when traced
    \* ---- useWebcamFer ----
    isActive,               \* session store isActive (drives enable/disable)
    fer,                    \* React state fer: the published face vector
    prevEma,                \* prevEmaRef.current
    busy,                   \* busyRef.current
    interval,               \* inferIntervalRef: NoTimer or the fer its tick closed over
    pendingEnable,          \* enable() calls awaiting startCamera, by closed-over fer
    mediaStream,            \* mediaStreamRef.current # null
    cycles,                 \* tick invocations awaiting the classifier (closed-over fer)
    faceSteps,              \* number of smoother updates so far (bounded)
    ferEvent,               \* what the last tick did
    \* ---- useVoiceEmotion and the session store ----
    micEnabled,             \* store.micEnabled
    minVad,                 \* store.minVadToUse / minVadRef.current
    msState,                \* the hook's MicStreamer: "none" | "acquiring" | "running"
    serPending,             \* postSER requests in flight
    smoothedSer,            \* smoothedSerRef.current
    voiceFer,               \* store.voiceFer
    fusedFer,               \* store.fusedFer
    offlineWarned,          \* offlineWarnedRef.current
    voiceSteps,             \* number of voice smoother updates so far (bounded)
    serEvent,               \* what the last onChunk completion did
    \* ---- lib/ferMapping, called on its own ----
    nIn,                    \* the argument of a normalizeFer call
    nOut,                   \* its return value (NoOutput before the call)
    \* ---- reward weights store (store/reward) and lib/reward ----
    alpha,                  \* store.alpha
    beta,                   \* store.beta
    gamma,                  \* store.gamma
    preset,                 \* store.preset
    rewardCall,             \* the last computeReward call: arguments and result
    \* ---- LinUCB (lib/policy) ----
    dim,                    \* this.d
    contexts,               \* this.contexts: arm id -> {A, b}, NoContext when absent
    updates,                \* number of update calls so far (bounded)
    lastCall,               \* the last LinUCB call or self-check round, with its result
    \* ---- session store (store/session.ts): sessions and turns ----
    sessionId,              \* store.sessionId # null
    currentQuestion,        \* store.currentQuestion # null
    currentDifficulty,      \* store.currentDifficulty
    isLoadingQuestion,      \* store.isLoadingQuestion
    isSubmitting,           \* store.isSubmitting
    turn,                   \* store.turn
    mastery,                \* store.mastery
    accuracyHistory,        \* store.accuracyHistory
    engagementHistory,      \* store.engagementHistory
    rewardHistory,          \* store.rewardHistory
    actionHistory,          \* store.actionHistory
    difficultyHistory,      \* store.difficultyHistory
    startPending,           \* a startSession call awaits apiClient.start
    loadPending,            \* loadNextQuestion calls awaiting apiClient.next
    submitPending,          \* submitAnswer calls awaiting apiClient.submit, by closed-over difficulty
    reloadPending           \* submitAnswer calls in the delay before loadNextQuestion

micVars == <<micPc, stream, processor, buffer, samplesCollected, chunkSeq,
             lastSignature, consecutiveDuplicates, metaOut, chunkOut, winPre,
             skipRun, dupSkipRun, lastStop, windowOut>>
faceVars == <<isActive, fer, prevEma, busy, interval, pendingEnable, mediaStream,
              cycles, faceSteps, ferEvent>>
voiceVars == <<micEnabled, minVad, msState, serPending, smoothedSer, voiceFer,
               fusedFer, offlineWarned, voiceSteps, serEvent>>
normVars == <<nIn, nOut>>
rewardVars == <<alpha, beta, gamma, preset, rewardCall>>
banditVars == <<dim, contexts, updates, lastCall>>
storeVars == <<sessionId, currentQuestion, currentDifficulty, isLoadingQuestion, isSubmitting,
               turn, mastery, accuracyHistory, engagementHistory, rewardHistory,
               actionHistory, difficultyHistory, startPending, loadPending,
               submitPending, reloadPending>>
vars == <<micVars, faceVars, voiceVars, normVars, rewardVars, banditVars, storeVars>>

----------------------------------------------------------------------------
(* Exact arithmetic on JavaScript numbers *)

Abs(x) == IF x < 0 THEN -x ELSE x

RECURSIVE Gcd(_, _)
Gcd(a, b) == IF b = 0 THEN a ELSE Gcd(b, a % b)

NaN == <<0, 0>>
PosInf == <<1, 0>>
NegInf == <<-1, 0>>

\* the reduced fraction n/d, d # 0
Frac(n, d) ==
    LET g == Gcd(Abs(n), Abs(d))
        s == IF d < 0 THEN -1 ELSE 1
    IN  <<(s * n) \div g, (s * d) \div g>>

IsNaN(x) == x = NaN
IsFinite(x) == x[2] # 0
Sign(x) == IF x[1] > 0 THEN 1 ELSE IF x[1] < 0 THEN -1 ELSE 0

\* x + y (IEEE: NaN propagates, Infinity - Infinity is NaN)
RAdd(x, y) ==
    IF IsNaN(x) \/ IsNaN(y) THEN NaN
    ELSE IF ~IsFinite(x) THEN (IF ~IsFinite(y) /\ y # x THEN NaN ELSE x)
    ELSE IF ~IsFinite(y) THEN y
    ELSE LET g == Gcd(x[2], y[2])
         IN  Frac(x[1] * (y[2] \div g) + y[1] * (x[2] \div g), (x[2] \div g) * y[2])

\* x * y (IEEE: 0 * Infinity is NaN)
RMul(x, y) ==
    IF IsNaN(x) \/ IsNaN(y) THEN NaN
    ELSE IF ~IsFinite(x) \/ ~IsFinite(y)
         THEN (IF Sign(x) * Sign(y) = 0 THEN NaN ELSE <<Sign(x) * Sign(y), 0>>)
    ELSE LET g1 == Gcd(Abs(x[1]), y[2])
             g2 == Gcd(Abs(y[1]), x[2])
         IN  Frac((x[1] \div g1) * (y[1] \div g2), (x[2] \div g2) * (y[2] \div g1))

RNeg(x) == <<-x[1], x[2]>>
RSub(x, y) == RAdd(x, RNeg(y))

\* x / y (IEEE: 0/0 and Infinity/Infinity are NaN, x/0 is +-Infinity)
RDiv(x, y) ==
    IF IsNaN(x) \/ IsNaN(y) THEN NaN
    ELSE IF ~IsFinite(y) THEN (IF ~IsFinite(x) THEN NaN ELSE <<0, 1>>)
    ELSE IF y[1] = 0 THEN (IF Sign(x) = 0 THEN NaN ELSE <<Sign(x), 0>>)
    ELSE IF ~IsFinite(x) THEN <<Sign(x) * Sign(y), 0>>
    ELSE RMul(x, Frac(y[2], y[1]))

\* x <= y and x < y (IEEE: every comparison with NaN is false)
RLeq(x, y) ==
    IF IsNaN(x) \/ IsNaN(y) THEN FALSE
    ELSE IF ~IsFinite(x) THEN (x = NegInf \/ y = PosInf)
    ELSE IF ~IsFinite(y) THEN y = PosInf
    ELSE x[1] * y[2] <= y[1] * x[2]
RLt(x, y) == RLeq(x, y) /\ x # y

RAbs(x) == <<Abs(x[1]), x[2]>>
RMax(x, y) == IF IsNaN(x) \/ IsNaN(y) THEN NaN ELSE IF RLeq(x, y) THEN y ELSE x
RMin(x, y) == IF IsNaN(x) \/ IsNaN(y) THEN NaN ELSE IF RLeq(x, y) THEN x ELSE y

Zero == <<0, 1>>
One == <<1, 1>>

----------------------------------------------------------------------------
(* Emotion vectors: lib/ferMapping *)

Vec(p, n, f) == [pos |-> p, neu |-> n, fru |-> f]
Uniform == Vec(<<1, 3>>, <<1, 3>>, <<1, 3>>)
INITIAL_FER == Uniform

\* clamp01 without its first line
clamp01NoFiniteCheck(x) == RMax(Zero, RMin(One, x))

clamp01(x) ==
    IF IsNaN(x) \/ ~IsFinite(x) THEN Zero
    ELSE RMax(Zero, RMin(One, x))

normalizeFer(vec) ==
    LET p == clamp01(vec.pos)
        n == clamp01(vec.neu)
        f == clamp01(vec.fru)
        sum == RAdd(RAdd(p, n), f)
    IN  IF RLeq(sum, Zero) THEN Uniform
        ELSE Vec(RDiv(p, sum), RDiv(n, sum), RDiv(f, sum))

\* alpha * prev + (1 - alpha) * current, per component
Blend(weight, prev, current) ==
    LET mix(a, b) == RAdd(RMul(weight, a), RMul(RSub(One, weight), b))
    IN  Vec(mix(prev.pos, current.pos), mix(prev.neu, current.neu),
            mix(prev.fru, current.fru))

ema(prev, current, weight) == normalizeFer(Blend(weight, prev, current))

EmaAlpha == <<7, 10>>

VecSum(v) == RAdd(RAdd(v.pos, v.neu), v.fru)
IsDistribution(v) ==
    /\ RLeq(Zero, v.pos) /\ RLeq(Zero, v.neu) /\ RLeq(Zero, v.fru)
    /\ VecSum(v) = One

----------------------------------------------------------------------------
(* Reward: src/lib/reward.ts and the reward weights store *)

\* PRESETS of the reward weights store
PRESETS ==
    [baseline |-> [alpha |-> One, beta |-> <<3, 10>>, gamma |-> <<1, 2>>],
     aggressive |-> [alpha |-> One, beta |-> <<1, 2>>, gamma |-> <<7, 10>>],
     conservative |-> [alpha |-> One, beta |-> <<1, 5>>, gamma |-> <<3, 10>>]]

\* clampNeg1to1: Math.max(-1, Math.min(1, x))
clampNeg1to1(x) == RMax(RNeg(One), RMin(One, x))

\* the mastery term cut to [-1,1] like the engagement term
clamp01RewardSigned(x) == clampNeg1to1(x)

\* clamp01 of lib/reward: Math.max(0, Math.min(1, x))
clamp01Reward(x) == RMax(Zero, RMin(One, x))

\* computeReward with the weights read from the store
computeReward(w, correct, engagement, deltaM) ==
    LET e == clampNeg1to1(engagement)
        d == clamp01Reward(deltaM)
    IN  RAdd(RAdd(RMul(w.alpha, correct), RMul(w.beta, e)), RMul(w.gamma, d))

----------------------------------------------------------------------------
(* LinUCB: src/lib/policy *)

\* Doubles overflow to an infinity above Number.MAX_VALUE.  The numbers of
\* this model are fractions of machine integers, so the largest finite value
\* is scaled down; Big is a finite feature value whose square overflows.
MAX_VALUE == 10000
Big == <<200, 1>>

\* the result of an arithmetic operation as a double
Ovf(x) ==
    IF IsFinite(x) /\ Abs(x[1]) > MAX_VALUE * x[2] THEN <<Sign(x), 0>> ELSE x
FAdd(x, y) == Ovf(RAdd(x, y))
FSub(x, y) == Ovf(RSub(x, y))
FMul(x, y) == Ovf(RMul(x, y))
FDiv(x, y) == Ovf(RDiv(x, y))

\* the largest k with k * k <= n
RECURSIVE IsqrtFrom(_, _)
IsqrtFrom(n, k) == IF (k + 1) * (k + 1) > n THEN k ELSE IsqrtFrom(n, k + 1)

\* Math.sqrt, rounded down to a multiple of 1/16 (the double rounds to 53
\* bits); NaN for a negative or missing argument
SqrtScale == 16
MathSqrt(x) ==
    IF IsNaN(x) \/ x[1] < 0 THEN NaN
    ELSE IF ~IsFinite(x) THEN PosInf
    ELSE Frac(IsqrtFrom((x[1] * SqrtScale * SqrtScale) \div x[2], 0), SqrtScale)

ArmIds == {"arm0", "arm1"}
NoContext == [none |-> TRUE]

\* the confidence parameter given to the constructor
LinucbAlpha == One

\* dotProduct: a.reduce((sum, val, i) => sum + val * b[i], 0)
RECURSIVE DotFrom(_, _, _, _)
DotFrom(a, b, i, sum) ==
    IF i > Len(a) THEN sum ELSE DotFrom(a, b, i + 1, FAdd(sum, FMul(a[i], b[i])))
dotProduct(a, b) == DotFrom(a, b, 1, Zero)

\* matrixVectorMultiply: matrix.map(row => dotProduct(row, vector))
matrixVectorMultiply(matrix, vector) ==
    [i \in 1..Len(matrix) |-> dotProduct(matrix[i], vector)]

\* quadraticForm
quadraticForm(matrix, vector) ==
    dotProduct(vector, matrixVectorMultiply(matrix, vector))

\* Math.abs(det) < 1e-10: every non-zero fraction of this model is larger
\* than 1e-10 in magnitude, so the test is true for a zero determinant only
nearSingular(det) == IsFinite(det) /\ det[1] = 0

\* inverse of a 2 x 2 matrix; "threw" when this.d is not 2
inverse(matrix, dd) ==
    IF dd # 2 THEN "threw"
    ELSE LET a == matrix[1][1]
             b == matrix[1][2]
             c == matrix[2][1]
             e == matrix[2][2]
             det == FSub(FMul(a, e), FMul(b, c))
         IN  IF nearSingular(det) THEN << <<One, Zero>>, <<Zero, One>> >>
             ELSE << <<FDiv(e, det), FDiv(RNeg(b), det)>>,
                     <<FDiv(RNeg(c), det), FDiv(a, det)>> >>

\* the context getOrCreateContext makes: Array(d) of Array(d).fill(0), and
\* Array(d).fill(0)
createContext(dd) ==
    [A |-> [i \in 1..dd |-> [j \in 1..dd |-> Zero]],
     b |-> [i \in 1..dd |-> Zero]]

\* this.contexts after getOrCreateContext(armId)
getOrCreateContext(ctxs, armId, dd) ==
    IF ctxs[armId] = NoContext
    THEN [ctxs EXCEPT ![armId] = createContext(dd)]
    ELSE ctxs

\* the value selectArm returns on this context ("threw" when inverse throws)
score(context, features, dd) ==
    LET AInv == inverse(context.A, dd)
    IN  IF AInv = "threw" THEN "threw"
        ELSE LET theta == matrixVectorMultiply(AInv, context.b)
                 p == dotProduct(theta, features)
                 confidence == FMul(LinucbAlpha, MathSqrt(quadraticForm(AInv, features)))
             IN  FAdd(p, confidence)

\* update touching every arm's context
updatedAllArms(ctxs, features, reward, armId, dd) ==
    [a \in DOMAIN ctxs |->
        LET context == getOrCreateContext(ctxs, a, dd)[a]
        IN  [A |-> [i \in 1..dd |-> [j \in 1..dd |->
                      FAdd(context.A[i][j], FMul(features[i], features[j]))]],
             b |-> [i \in 1..dd |-> FAdd(context.b[i], FMul(features[i], reward))]]]

\* this.contexts after update(features, reward, armId)
updated(ctxs, features, reward, armId, dd) ==
    LET created == getOrCreateContext(ctxs, armId, dd)
        context == created[armId]
    IN  [created EXCEPT ![armId] =
            [A |-> [i \in 1..dd |-> [j \in 1..dd |->
                      FAdd(context.A[i][j], FMul(features[i], features[j]))]],
             b |-> [i \in 1..dd |-> FAdd(context.b[i], FMul(features[i], reward))]]]

----------------------------------------------------------------------------
(* MicStreamer: src/lib/audioCapture.ts *)

\* Samples and signature components are integers in units of 1e-4.
\* sample values a frame can carry: silence, the quiet limit 0.01 and a level
\* just below it (within the duplicate threshold of it)
Samples == {0, 99, 100}

FrameLen == 2                    \* samples per onaudioprocess callback (4096)
ChunkLen == 3                    \* whole part of actualSr * chunkSeconds
MaxSeq == 7
MaxFlowSeq == 3                      \* windows modelled between two stop() calls

maxConsecutiveDuplicates == 5
duplicateThreshold == 1          \* max(1e-6, SER_DUPLICATE_THRESHOLD = 1e-4)
QuietRms == 100                  \* 0.01

NoSig == [none |-> TRUE]

\* actualSr * chunkSeconds: chunkSeconds is max(0.25, NEXT_PUBLIC_SER_CHUNK_SECONDS),
\* so the product need not be whole; here it is ChunkLen + 1/2
WindowProduct == <<2 * ChunkLen + 1, 2>>

\* Math.floor and Math.ceil of a positive fraction
Floor(x) == x[1] \div x[2]
Ceil(x) == (x[1] + x[2] - 1) \div x[2]

\* the window length rounded up
neededCeil == Ceil(WindowProduct)

\* const needed = Math.floor(this.actualSr * this.chunkSeconds)
needed == Floor(WindowProduct)

Frames == [1..FrameLen -> Samples]

RECURSIVE SumSeq(_)
SumSeq(s) == IF s = <<>> THEN 0 ELSE Head(s) + SumSeq(Tail(s))
RECURSIVE SumSquares(_)
SumSquares(s) == IF s = <<>> THEN 0 ELSE Head(s) * Head(s) + SumSquares(Tail(s))
RECURSIVE Peak(_)
Peak(s) ==
    IF s = <<>> THEN 0
    ELSE LET m == Peak(Tail(s)) IN IF Abs(Head(s)) > m THEN Abs(Head(s)) ELSE m

\* computeSignature: rms = sqrt(sumSquares / len) and mean = sum / len are kept
\* as the exact pair (sumSquares, len) and (sum, len); peak is a sample value.
computeSignature(samples) ==
    [sumSquares |-> SumSquares(samples), peak |-> Peak(samples),
     sum |-> SumSeq(samples), len |-> Len(samples)]

\* the silence rule left out: no window counts as silent
isSilentNever(sig) == FALSE

\* signature.rms === 0 && signature.peak === 0 && signature.mean === 0
isSilent(sig) == sig.sumSquares = 0 /\ sig.peak = 0 /\ sig.sum = 0

\* sig.rms < q, i.e. sumSquares / len < q^2
RmsBelow(sig, q) == sig.sumSquares < q * q * sig.len

\* |a.rms - b.rms| <= t for signatures of equal length n:
\* sqrt(hi) <= sqrt(lo) + t*sqrt(n)  iff  hi - lo - t^2 n <= 2 t sqrt(lo n)
DiffRmsWithin(a, b, t) ==
    LET hi == IF a.sumSquares >= b.sumSquares THEN a.sumSquares ELSE b.sumSquares
        lo == IF a.sumSquares >= b.sumSquares THEN b.sumSquares ELSE a.sumSquares
        L == hi - lo - t * t * a.len
    IN  L <= 0 \/ L * L <= 4 * t * t * lo * a.len
DiffPeakWithin(a, b, t) == Abs(a.peak - b.peak) <= t
\* |a.mean - b.mean| <= t
DiffMeanWithin(a, b, t) == Abs(a.sum - b.sum) <= t * a.len

\* isDuplicate with the final `&& !isQuiet` left out
isDuplicateNoQuietException(signature, last) ==
    IF last = NoSig THEN FALSE
    ELSE LET isQuiet == RmsBelow(signature, QuietRms) /\ RmsBelow(last, QuietRms)
             threshold == IF isQuiet THEN duplicateThreshold * 10
                          ELSE duplicateThreshold
         IN  /\ DiffRmsWithin(signature, last, threshold)
             /\ DiffPeakWithin(signature, last, threshold)
             /\ DiffMeanWithin(signature, last, threshold)

\* isDuplicate with the quiet test inverted (`&& isQuiet`)
isDuplicateQuietOnly(signature, last) ==
    IF last = NoSig THEN FALSE
    ELSE LET isQuiet == RmsBelow(signature, QuietRms) /\ RmsBelow(last, QuietRms)
             threshold == IF isQuiet THEN duplicateThreshold * 10
                          ELSE duplicateThreshold
         IN  /\ DiffRmsWithin(signature, last, threshold)
             /\ DiffPeakWithin(signature, last, threshold)
             /\ DiffMeanWithin(signature, last, threshold)
             /\ isQuiet

isDuplicate(signature, last) ==
    IF last = NoSig THEN FALSE
    ELSE LET isQuiet == RmsBelow(signature, QuietRms) /\ RmsBelow(last, QuietRms)
             threshold == IF isQuiet THEN duplicateThreshold * 10
                          ELSE duplicateThreshold
         IN  /\ DiffRmsWithin(signature, last, threshold)
             /\ DiffPeakWithin(signature, last, threshold)
             /\ DiffMeanWithin(signature, last, threshold)
             /\ ~isQuiet

\* flush(needed): take `need` = needed samples from the front of the queue of arrays,
\* putting the unused rest of an array back at the front; pad with zeros.
RECURSIVE FlushLoop(_, _, _)
FlushLoop(buf, out, need) ==
    IF Len(out) < need /\ buf # <<>>
    THEN LET b == Head(buf)
             copy == IF Len(b) < need - Len(out) THEN Len(b) ELSE need - Len(out)
             rest == IF copy < Len(b)
                     THEN <<SubSeq(b, copy + 1, Len(b))>> \o Tail(buf)
                     ELSE Tail(buf)
         IN  FlushLoop(rest, out \o SubSeq(b, 1, copy), need)
    ELSE [out |-> out \o [i \in 1..(need - Len(out)) |-> 0], buffer |-> buf]

flush(buf, collected, need) ==
    LET r == FlushLoop(buf, <<>>, need)
    IN  [out |-> r.out, buffer |-> r.buffer,
         samplesCollected |-> IF collected - need < 0 THEN 0 ELSE collected - need]

\* forceSend with `>` for `>=`
forceSendLate(count) == count > maxConsecutiveDuplicates

forceSend(count) == count >= maxConsecutiveDuplicates

\* the sequence counter left as it is
nextSeqStuck(seq) == seq

\* const seq = ++this.chunkSeq
nextSeq(seq) == seq + 1

\* a skipped window leaving this.lastSignature as it is
signatureKeptOnSkip(signature, last) == last

\* `this.lastSignature = signature` of the silent and the duplicate branch
signatureAfterSkip(signature, last) == signature

\* one pass of the body of `while (this.samplesCollected >= needed)`
ProcessWindow(st) ==
    LET fl == flush(st.buffer, st.samplesCollected, needed)
        signature == computeSignature(fl.out)
        seq == nextSeq(st.chunkSeq)
        base == [buffer |-> fl.buffer, samplesCollected |-> fl.samplesCollected,
                 chunkSeq |-> seq, windowOut |-> Append(st.windowOut, fl.out)]
        meta(d, s) == [seq |-> seq, sampleCount |-> Len(fl.out), sig |-> signature,
                       duplicate |-> d, sent |-> s]
        isDup == isDuplicate(signature, st.lastSignature)
        force == forceSend(st.consecutiveDuplicates)
        pre == Append(st.winPre, [lastSignature |-> st.lastSignature,
                                  consecutiveDuplicates |-> st.consecutiveDuplicates])
    IN  IF isSilent(signature)
        THEN base @@ [lastSignature |-> signatureAfterSkip(signature, st.lastSignature),
                      consecutiveDuplicates |-> st.consecutiveDuplicates,
                      metaOut |-> Append(st.metaOut, meta(TRUE, FALSE)),
                      chunkOut |-> st.chunkOut, winPre |-> pre,
                      skipRun |-> st.skipRun + 1, dupSkipRun |-> st.dupSkipRun]
        ELSE IF isDup /\ ~force
        THEN base @@ [lastSignature |-> signatureAfterSkip(signature, st.lastSignature),
                      consecutiveDuplicates |-> st.consecutiveDuplicates + 1,
                      metaOut |-> Append(st.metaOut, meta(TRUE, FALSE)),
                      chunkOut |-> st.chunkOut, winPre |-> pre,
                      skipRun |-> st.skipRun + 1, dupSkipRun |-> st.dupSkipRun + 1]
        ELSE base @@ [lastSignature |-> signature,
                      consecutiveDuplicates |-> 0,
                      metaOut |-> Append(st.metaOut, meta(isDup /\ force, TRUE)),
                      chunkOut |-> Append(st.chunkOut, seq), winPre |-> pre,
                      skipRun |-> 0, dupSkipRun |-> 0]

RECURSIVE WindowLoop(_)
WindowLoop(st) ==
    IF st.samplesCollected >= needed THEN WindowLoop(ProcessWindow(st)) ELSE st

\* start() up to `await getUserMedia`
MicStartCall ==
    /\ micPc = "idle"
    /\ micPc' = "acquiring"
    /\ lastStop' = IF lastStop.phase = "stopped" /\ lastStop.dirty
                   THEN [phase |-> "restarted", dirty |-> TRUE]
                   ELSE [phase |-> "none", dirty |-> FALSE]
    /\ UNCHANGED <<stream, processor, buffer, samplesCollected, chunkSeq,
                   lastSignature, consecutiveDuplicates, metaOut, chunkOut,
                   winPre, skipRun, dupSkipRun, windowOut>>
    /\ UNCHANGED <<faceVars, voiceVars, normVars, rewardVars, banditVars, storeVars>>

\* getUserMedia resolves: the rest of start() runs
MicStartResolve ==
    /\ micPc = "acquiring"
    /\ micPc' = "running" /\ stream' = TRUE /\ processor' = TRUE
    /\ UNCHANGED <<buffer, samplesCollected, chunkSeq, lastSignature,
                   consecutiveDuplicates, metaOut, chunkOut, winPre, skipRun,
                   dupSkipRun, lastStop, windowOut>>
    /\ UNCHANGED <<faceVars, voiceVars, normVars, rewardVars, banditVars, storeVars>>

\* getUserMedia resolves and a later statement of start() throws (the
\* AudioContext constructor, createScriptProcessor): this.stream is set,
\* no processor is installed, start() rejects
MicStartFail ==
    /\ micPc = "acquiring"
    /\ micPc' = "idle" /\ stream' = TRUE
    /\ UNCHANGED <<processor, buffer, samplesCollected, chunkSeq, lastSignature,
                   consecutiveDuplicates, metaOut, chunkOut, winPre, skipRun,
                   dupSkipRun, lastStop, windowOut>>
    /\ UNCHANGED <<faceVars, voiceVars, normVars, rewardVars, banditVars, storeVars>>

\* getUserMedia rejects: start() throws before touching any field
MicStartReject ==
    /\ micPc = "acquiring"
    /\ micPc' = "idle"
    /\ UNCHANGED <<stream, processor, buffer, samplesCollected, chunkSeq,
                   lastSignature, consecutiveDuplicates, metaOut, chunkOut,
                   winPre, skipRun, dupSkipRun, lastStop, windowOut>>
    /\ UNCHANGED <<faceVars, voiceVars, normVars, rewardVars, banditVars, storeVars>>

\* processor.onaudioprocess with one input frame, while fewer than cap
\* windows were numbered; trace says whether the extracted windows are kept
\* for inspection
OnAudioProcess(cap, trace) ==
    /\ processor
    /\ chunkSeq < cap
    /\ \E frame \in Frames :
         \E st \in {WindowLoop([buffer |-> Append(buffer, frame),
                                samplesCollected |-> samplesCollected + Len(frame),
                                chunkSeq |-> chunkSeq, lastSignature |-> lastSignature,
                                consecutiveDuplicates |-> consecutiveDuplicates,
                                metaOut |-> <<>>, chunkOut |-> <<>>, winPre |-> <<>>,
                                skipRun |-> skipRun, dupSkipRun |-> dupSkipRun,
                                windowOut |-> <<>>])} :
             /\ buffer' = st.buffer
             /\ samplesCollected' = st.samplesCollected
             /\ chunkSeq' = st.chunkSeq
             /\ lastSignature' = st.lastSignature
             /\ consecutiveDuplicates' = st.consecutiveDuplicates
             /\ metaOut' = st.metaOut
             /\ chunkOut' = st.chunkOut
             /\ winPre' = st.winPre
             /\ skipRun' = st.skipRun
             /\ dupSkipRun' = st.dupSkipRun
             /\ windowOut' = IF trace THEN st.windowOut ELSE <<>>
    /\ UNCHANGED <<micPc, stream, processor, lastStop>>
    /\ UNCHANGED <<faceVars, voiceVars, normVars, rewardVars, banditVars, storeVars>>

MicAudioProcess == OnAudioProcess(MaxSeq, FALSE)

\* the same callback with its windows kept, for the first MaxFlowSeq windows
MicAudioProcessTraced == OnAudioProcess(MaxFlowSeq, TRUE)

\* stop() leaving this.lastSignature as it is
stopKeepsSignature(last) == last

\* `this.lastSignature = null` of stop()
stopLastSignature(last) == NoSig

\* stop(); a start() still awaiting getUserMedia stays pending
MicStop ==
    /\ processor' = FALSE /\ stream' = FALSE
    /\ buffer' = <<>> /\ samplesCollected' = 0 /\ chunkSeq' = 0
    /\ lastSignature' = stopLastSignature(lastSignature)
    /\ consecutiveDuplicates' = 0
    /\ lastStop' = [phase |-> "stopped",
                    dirty |-> lastSignature # NoSig /\ consecutiveDuplicates > 0]
    /\ micPc' = IF micPc = "running" THEN "idle" ELSE micPc
    /\ metaOut' = <<>> /\ chunkOut' = <<>> /\ winPre' = <<>> /\ windowOut' = <<>>
    /\ skipRun' = 0 /\ dupSkipRun' = 0
    /\ UNCHANGED <<faceVars, voiceVars, normVars, rewardVars, banditVars, storeVars>>

----------------------------------------------------------------------------
(* Initial states of the two hooks and of the session store *)

NoTimer == [none |-> TRUE]
NoEvent == [kind |-> "none"]
NoOutput == [none |-> TRUE]

\* the state after construction: MicStreamer's field initialisers, the
\* useState/useRef initial values of the hooks, the store's initial state
Init ==
    /\ micPc = "idle" /\ stream = FALSE /\ processor = FALSE
    /\ buffer = <<>> /\ samplesCollected = 0 /\ chunkSeq = 0
    /\ lastSignature = NoSig /\ consecutiveDuplicates = 0
    /\ metaOut = <<>> /\ chunkOut = <<>> /\ winPre = <<>>
    /\ skipRun = 0 /\ dupSkipRun = 0
    /\ lastStop = [phase |-> "none", dirty |-> FALSE] /\ windowOut = <<>>
    /\ isActive = FALSE /\ fer = INITIAL_FER /\ prevEma = INITIAL_FER
    /\ busy = FALSE /\ interval = NoTimer /\ pendingEnable = {}
    /\ mediaStream = FALSE /\ cycles = <<>> /\ faceSteps = 0
    /\ ferEvent = NoEvent
    /\ micEnabled = FALSE /\ minVad = <<1, 5>> /\ msState = "none"
    /\ serPending = 0 /\ smoothedSer = Uniform
    /\ voiceFer = [pos |-> <<1, 3>>, neu |-> <<1, 3>>, fru |-> <<1, 3>>, vad |-> Zero]
    /\ fusedFer = Uniform /\ offlineWarned = FALSE
    /\ voiceSteps = 0 /\ serEvent = NoEvent
    /\ nIn = INITIAL_FER /\ nOut = NoOutput
    /\ alpha = PRESETS["baseline"].alpha /\ beta = PRESETS["baseline"].beta
    /\ gamma = PRESETS["baseline"].gamma /\ preset = "baseline" /\ rewardCall = NoOutput
    /\ dim = 2 /\ contexts = [a \in ArmIds |-> NoContext] /\ updates = 0
    /\ lastCall = NoOutput
    /\ sessionId = FALSE /\ currentQuestion = FALSE /\ currentDifficulty = 2
    /\ isLoadingQuestion = FALSE /\ isSubmitting = FALSE /\ turn = 0 /\ mastery = Zero
    /\ accuracyHistory = <<>> /\ engagementHistory = <<>> /\ rewardHistory = <<>>
    /\ actionHistory = <<>> /\ difficultyHistory = <<>>
    /\ startPending = FALSE /\ loadPending = 0 /\ submitPending = <<>>
    /\ reloadPending = 0

----------------------------------------------------------------------------
(* Specification of one MicStreamer instance *)

MicNext ==
    \/ MicStartCall
    \/ MicStartResolve
    \/ MicStartReject
    \/ MicStartFail
    \/ MicAudioProcess
    \/ MicStop

SpecMic == Init /\ [][MicNext]_vars

(* The same instance with the extracted windows kept *)

MicFlowNext ==
    \/ MicStartCall
    \/ MicStartResolve
    \/ MicAudioProcessTraced
    \/ MicStop

SpecMicFlow == Init /\ [][MicFlowNext]_vars

----------------------------------------------------------------------------
(* useWebcamFer: src/hooks/useWebcamFer.ts, driven by app/layout.tsx *)

MaxFaceSteps == 2                \* smoother updates modelled per run

\* classifier answers of postFER ({pos, neu, fru})
FaceOutputs == {Vec(Zero, <<1, 2>>, <<1, 2>>)}

\* (Math.random() - 0.5) * drift with drift = 0.02 lies in [-0.01, 0.01);
\* the triples of values the three rnd() calls of pseudoDrift can return
DriftSteps == { <<Zero, Zero, Zero>>,
                <<(<<1, 100>>), (<<-1, 100>>), Zero>>,
                <<(<<-1, 100>>), (<<1, 200>>), (<<1, 200>>)>> }

VecAdd(v, r) == Vec(RAdd(v.pos, r[1]), RAdd(v.neu, r[2]), RAdd(v.fru, r[3]))

\* pseudoDrift: the new prevEmaRef.current (also the value given to setFer);
\* closureFer is the `fer` the callback closed over
pseudoDrift(prev, closureFer, r) ==
    ema(prev, normalizeFer(VecAdd(closureFer, r)), EmaAlpha)

\* tick with the `if (busyRef.current) return` guard left out
tickBusyIgnored(b) == FALSE

\* `if (busyRef.current) return;`
tickBusy(b) == b

\* busyRef left set when the cycle ends without a classifier answer
busyAfterNoFinally(outcome) == outcome # "ok"

\* busyRef.current after the try/catch/finally of tick, for every outcome
busyAfter(outcome) == FALSE

RemoveAt(q, i) == SubSeq(q, 1, i - 1) \o SubSeq(q, i + 1, Len(q))

\* setFer(v) and the render it causes: layout's effect on [isActive, enable,
\* disable] runs again because `enable` is a new callback (its dependency
\* chain tick -> pseudoDrift -> fer changed), calling enable() when the
\* session is active and disable() otherwise.
CommitFer(v) ==
    /\ fer' = v
    /\ IF isActive
       THEN /\ pendingEnable' = pendingEnable \cup {v}
            /\ UNCHANGED <<interval, mediaStream>>
       ELSE /\ interval' = NoTimer /\ mediaStream' = FALSE
            /\ UNCHANGED pendingEnable

\* startSession succeeds: isActive becomes true and layout calls enable(),
\* which runs up to `await startCamera()`
SessionStart ==
    /\ ~isActive
    /\ isActive' = TRUE
    /\ pendingEnable' = pendingEnable \cup {fer}
    /\ UNCHANGED <<fer, prevEma, busy, interval, mediaStream, cycles, faceSteps,
                   ferEvent>>
    /\ UNCHANGED <<micVars, voiceVars, normVars, rewardVars, banditVars, storeVars>>

\* endSession: isActive becomes false and layout calls disable()
SessionEnd ==
    /\ isActive
    /\ isActive' = FALSE
    /\ interval' = NoTimer /\ mediaStream' = FALSE
    /\ UNCHANGED <<fer, prevEma, busy, pendingEnable, cycles, faceSteps, ferEvent>>
    /\ UNCHANGED <<micVars, voiceVars, normVars, rewardVars, banditVars, storeVars>>

\* startCamera resolves inside an enable() call: the stream is stored, any
\* running interval is cleared and a new one is started with that call's tick
EnableResolve ==
    /\ \E f \in pendingEnable :
         /\ pendingEnable' = pendingEnable \ {f}
         /\ mediaStream' = TRUE
         /\ interval' = [fer |-> f]
    /\ UNCHANGED <<isActive, fer, prevEma, busy, cycles, faceSteps, ferEvent>>
    /\ UNCHANGED <<micVars, voiceVars, normVars, rewardVars, banditVars, storeVars>>

\* getUserMedia rejects inside an enable() call: setError, setEnabled(false)
EnableReject ==
    /\ \E f \in pendingEnable : pendingEnable' = pendingEnable \ {f}
    /\ UNCHANGED <<isActive, fer, prevEma, busy, interval, mediaStream, cycles,
                   faceSteps, ferEvent>>
    /\ UNCHANGED <<micVars, voiceVars, normVars, rewardVars, banditVars, storeVars>>

\* the interval fires while a cycle is in flight: tick returns at once
TickSkip ==
    /\ interval # NoTimer
    /\ tickBusy(busy)
    /\ ferEvent' = [kind |-> "skipped"]
    /\ UNCHANGED <<isActive, fer, prevEma, busy, interval, pendingEnable,
                   mediaStream, cycles, faceSteps>>
    /\ UNCHANGED <<micVars, voiceVars, normVars, rewardVars, banditVars, storeVars>>

\* tick finds no bounding box or no canvas: `return` inside try, then finally
TickNoFace ==
    /\ interval # NoTimer
    /\ ~tickBusy(busy)
    /\ busy' = busyAfter("noface")
    /\ ferEvent' = [kind |-> "noface"]
    /\ UNCHANGED <<isActive, fer, prevEma, interval, pendingEnable, mediaStream,
                   cycles, faceSteps>>
    /\ UNCHANGED <<micVars, voiceVars, normVars, rewardVars, banditVars, storeVars>>

\* tick throws before the classifier call (cropFace): catch runs setError and
\* pseudoDrift, then finally
TickThrow ==
    /\ interval # NoTimer
    /\ ~tickBusy(busy)
    /\ faceSteps + Len(cycles) < MaxFaceSteps
    /\ \E r \in DriftSteps :
         /\ prevEma' = pseudoDrift(prevEma, interval.fer, r)
         /\ CommitFer(prevEma')
         /\ ferEvent' = [kind |-> "drift", prev |-> prevEma, closure |-> interval.fer,
                         rnd |-> r]
    /\ busy' = busyAfter("throw")
    /\ faceSteps' = faceSteps + 1
    /\ UNCHANGED <<isActive, cycles>>
    /\ UNCHANGED <<micVars, voiceVars, normVars, rewardVars, banditVars, storeVars>>

\* tick sets busyRef and reaches `await runBackendInference(faceCanvas)`
TickStart ==
    /\ interval # NoTimer
    /\ ~tickBusy(busy)
    /\ faceSteps + Len(cycles) < MaxFaceSteps
    /\ busy' = TRUE
    /\ cycles' = Append(cycles, [fer |-> interval.fer])
    /\ ferEvent' = [kind |-> "started", after |-> ferEvent.kind]
    /\ UNCHANGED <<isActive, fer, prevEma, interval, pendingEnable, mediaStream,
                   faceSteps>>
    /\ UNCHANGED <<micVars, voiceVars, normVars, rewardVars, banditVars, storeVars>>

\* runBackendInference returns a vector: one EMA step, then finally
CycleOk ==
    /\ \E i \in 1..Len(cycles), fer3 \in FaceOutputs :
         /\ cycles' = RemoveAt(cycles, i)
         /\ prevEma' = ema(prevEma, fer3, EmaAlpha)
         /\ CommitFer(prevEma')
         /\ ferEvent' = [kind |-> "ok", prev |-> prevEma, out |-> fer3]
    /\ busy' = busyAfter("ok")
    /\ faceSteps' = faceSteps + 1
    /\ UNCHANGED isActive
    /\ UNCHANGED <<micVars, voiceVars, normVars, rewardVars, banditVars, storeVars>>

\* runBackendInference returns null (no blob, or postFER rejected and was
\* caught): pseudoDrift with the fer this tick closed over, then finally
CycleFail ==
    /\ \E i \in 1..Len(cycles), r \in DriftSteps :
         /\ cycles' = RemoveAt(cycles, i)
         /\ prevEma' = pseudoDrift(prevEma, cycles[i].fer, r)
         /\ CommitFer(prevEma')
         /\ ferEvent' = [kind |-> "drift", prev |-> prevEma,
                         closure |-> cycles[i].fer, rnd |-> r]
    /\ busy' = busyAfter("null")
    /\ faceSteps' = faceSteps + 1
    /\ UNCHANGED isActive
    /\ UNCHANGED <<micVars, voiceVars, normVars, rewardVars, banditVars, storeVars>>

FaceNext ==
    \/ SessionStart
    \/ SessionEnd
    \/ EnableResolve
    \/ EnableReject
    \/ TickSkip
    \/ TickNoFace
    \/ TickThrow
    \/ TickStart
    \/ CycleOk
    \/ CycleFail

SpecFace == Init /\ [][FaceNext]_vars

----------------------------------------------------------------------------
(* useVoiceEmotion: src/hooks/useWebcamFer.ts, with store/session.ts *)

MaxVoiceSteps == 1               \* voice smoother updates modelled per run
MaxPending == 1                  \* postSER requests in flight at a time

FUSION_LAMBDA == <<3, 5>>

\* answers of postSER ({pos, neu, fru, vad})
SerOutputs ==
    { [pos |-> Zero, neu |-> Zero, fru |-> One, vad |-> <<1, 5>>],
      [pos |-> Zero, neu |-> <<1, 2>>, fru |-> <<1, 2>>, vad |-> <<1, 10>>] }

\* answers of postSER that are not distributions (serClient returns the JSON
\* body as it is): a component above 1, one below 0 (small and large), one
\* missing
MalformedSerOutputs ==
    { [pos |-> <<3, 2>>, neu |-> Zero, fru |-> Zero, vad |-> <<9, 10>>],
      [pos |-> <<-9, 1>>, neu |-> Zero, fru |-> Zero, vad |-> <<9, 10>>],
      [pos |-> <<-3, 1>>, neu |-> Zero, fru |-> One, vad |-> <<9, 10>>],
      [pos |-> NaN, neu |-> <<1, 2>>, fru |-> <<1, 2>>, vad |-> <<9, 10>>] }

\* values given to setMinVadToUse
MinVadInputs == { <<1, 5>>, <<3, 2>> }

\* setMinVadToUse: Math.max(0, Math.min(1, v))
clampMinVad(v) == RMax(Zero, RMin(One, v))

\* smoothSer(current, newVal, alpha = 0.7): no re-normalization
smoothSer(current, newVal) == Blend(EmaAlpha, current, newVal)

\* every response taken as voiced
useVoiceAlways(vad, min) == TRUE

\* const useVoice = (res.vad ?? 0) >= (minVadRef.current ?? 0.2)
useVoice(vad, min) == RLeq(min, vad)

\* the blend handed to setFusedFer without the division by its sum
fuseUnnormalised(face, smoothed, voiced) ==
    IF voiced THEN Blend(RMax(Zero, RMin(One, FUSION_LAMBDA)), face, smoothed) ELSE face

\* the vector onChunk gives to setFusedFer after a response
fuse(face, smoothed, voiced) ==
    LET lam == RMax(Zero, RMin(One, FUSION_LAMBDA))
        fused == IF voiced THEN Blend(lam, face, smoothed) ELSE face
        sum == VecSum(fused)
    IN  IF RLt(Zero, sum)
        THEN Vec(RDiv(fused.pos, sum), RDiv(fused.neu, sum), RDiv(fused.fru, sum))
        ELSE Uniform

\* setMicEnabled(true): the effect clears offlineWarnedRef, builds a
\* MicStreamer and calls ms.start()
MicToggleOn ==
    /\ ~micEnabled
    /\ micEnabled' = TRUE
    /\ offlineWarned' = FALSE
    /\ msState' = "acquiring"
    /\ serEvent' = NoEvent
    /\ UNCHANGED <<minVad, serPending, smoothedSer, voiceFer, fusedFer, voiceSteps>>
    /\ UNCHANGED <<micVars, faceVars, normVars, rewardVars, banditVars, storeVars>>

\* setMicEnabled(false): the cleanup stops the streamer, the effect runs its
\* disabled branch and writes setFusedFer(faceRef.current)
MicToggleOff ==
    /\ micEnabled
    /\ micEnabled' = FALSE
    /\ msState' = "none"
    /\ fusedFer' = fer
    /\ UNCHANGED <<minVad, serPending, smoothedSer, voiceFer, offlineWarned,
                   voiceSteps, serEvent>>
    /\ UNCHANGED <<micVars, faceVars, normVars, rewardVars, banditVars, storeVars>>

\* ms.start() resolves: the streamer delivers chunks from now on
VoiceStartResolve ==
    /\ msState = "acquiring"
    /\ msState' = "running"
    /\ UNCHANGED <<micEnabled, minVad, serPending, smoothedSer, voiceFer, fusedFer,
                   offlineWarned, voiceSteps, serEvent>>
    /\ UNCHANGED <<micVars, faceVars, normVars, rewardVars, banditVars, storeVars>>

\* ms.start() rejects: toast unless already warned, face-only fusion
VoiceStartReject ==
    /\ msState = "acquiring"
    /\ msState' = "none"
    /\ offlineWarned' = TRUE
    /\ fusedFer' = fer
    /\ serEvent' = [kind |-> "micfail", toasted |-> ~offlineWarned]
    /\ UNCHANGED <<micEnabled, minVad, serPending, smoothedSer, voiceFer, voiceSteps>>
    /\ UNCHANGED <<micVars, faceVars, normVars, rewardVars, banditVars, storeVars>>

\* the streamer hands a chunk to onChunk, which reaches `await postSER(blob)`
SerUpload ==
    /\ msState = "running"
    /\ serPending < MaxPending
    /\ serPending' = serPending + 1
    /\ UNCHANGED <<micEnabled, minVad, msState, smoothedSer, voiceFer, fusedFer,
                   offlineWarned, voiceSteps, serEvent>>
    /\ UNCHANGED <<micVars, faceVars, normVars, rewardVars, banditVars, storeVars>>

\* the try block of onChunk after `await postSER(blob)` returned res
OnChunkResolved(res) ==
    LET voiced == useVoice(res.vad, minVad) IN
    /\ voiced => voiceSteps < MaxVoiceSteps
    /\ voiceFer' = res
    /\ smoothedSer' =
         IF voiced
         THEN smoothSer(smoothedSer, Vec(res.pos, res.neu, res.fru))
         ELSE smoothedSer
    /\ voiceSteps' = IF voiced THEN voiceSteps + 1 ELSE voiceSteps
    /\ fusedFer' = fuse(fer, smoothedSer', voiced)
    /\ serEvent' = [kind |-> "resolved", voiced |-> voiced]
    /\ serPending' = serPending - 1
    /\ UNCHANGED <<micEnabled, minVad, msState, offlineWarned>>
    /\ UNCHANGED <<micVars, faceVars, normVars, rewardVars, banditVars, storeVars>>

\* postSER resolves with a distribution
SerResolve ==
    /\ serPending > 0
    /\ \E res \in SerOutputs : OnChunkResolved(res)

\* postSER resolves with a body that is not a distribution
SerMalformed ==
    /\ serPending > 0
    /\ \E res \in MalformedSerOutputs : OnChunkResolved(res)

\* postSER rejects: the catch block of onChunk
SerReject ==
    /\ serPending > 0
    /\ serPending' = serPending - 1
    /\ offlineWarned' = TRUE
    /\ fusedFer' = fer
    /\ serEvent' = [kind |-> "rejected", toasted |-> ~offlineWarned,
                    after |-> serEvent.kind]
    /\ UNCHANGED <<micEnabled, minVad, msState, smoothedSer, voiceFer, voiceSteps>>
    /\ UNCHANGED <<micVars, faceVars, normVars, rewardVars, banditVars, storeVars>>

\* setMinVadToUse(v); the hook copies the store value into minVadRef
SetMinVadToUse ==
    /\ \E v \in MinVadInputs :
         /\ clampMinVad(v) # minVad
         /\ minVad' = clampMinVad(v)
    /\ UNCHANGED <<micEnabled, msState, serPending, smoothedSer, voiceFer, fusedFer,
                   offlineWarned, voiceSteps, serEvent>>
    /\ UNCHANGED <<micVars, faceVars, normVars, rewardVars, banditVars, storeVars>>

----------------------------------------------------------------------------
(* Specification of the voice hook and the store.  The hook reads the face *)
(* hook only through the published vector fer, so the face actions taken   *)
(* are the session start and the cycles that publish a classifier answer.  *)

FusionNext ==
    \/ SessionStart
    \/ EnableResolve
    \/ TickStart
    \/ CycleOk
    \/ MicToggleOn
    \/ MicToggleOff
    \/ VoiceStartResolve
    \/ VoiceStartReject
    \/ SerUpload
    \/ SerResolve
    \/ SerReject
    \/ SetMinVadToUse

SpecFusion == Init /\ [][FusionNext]_vars

----------------------------------------------------------------------------
(* Specification of the voice hook alone, the camera idle, with answers of *)
(* the voice classifier that are not distributions                         *)

VoiceNext ==
    \/ MicToggleOn
    \/ MicToggleOff
    \/ VoiceStartResolve
    \/ VoiceStartReject
    \/ SerUpload
    \/ SerResolve
    \/ SerMalformed
    \/ SerReject
    \/ SetMinVadToUse

SpecVoice == Init /\ [][VoiceNext]_vars

----------------------------------------------------------------------------
(* Specification of the fusion step: the face hook publishes vectors while *)
(* the voice hook, enabled, receives answers of either kind                *)

BlendNext ==
    \/ SessionStart
    \/ EnableResolve
    \/ TickStart
    \/ CycleOk
    \/ MicToggleOn
    \/ VoiceStartResolve
    \/ SerUpload
    \/ SerResolve
    \/ SerMalformed

SpecBlend == Init /\ [][BlendNext]_vars

----------------------------------------------------------------------------
(* normalizeFer as a function of its argument *)

\* component values of an argument: not-a-number, the infinities, a negative
\* number, zero, numbers inside the unit interval, one, a number above one
NormInputs == {NaN, PosInf, NegInf, <<-1, 2>>, Zero, <<1, 3>>, <<1, 2>>, One, <<3, 2>>}

\* the state before a call of normalizeFer on any vector over NormInputs
NormInit ==
    /\ micPc = "idle" /\ stream = FALSE /\ processor = FALSE
    /\ buffer = <<>> /\ samplesCollected = 0 /\ chunkSeq = 0
    /\ lastSignature = NoSig /\ consecutiveDuplicates = 0
    /\ metaOut = <<>> /\ chunkOut = <<>> /\ winPre = <<>>
    /\ skipRun = 0 /\ dupSkipRun = 0
    /\ lastStop = [phase |-> "none", dirty |-> FALSE] /\ windowOut = <<>>
    /\ isActive = FALSE /\ fer = INITIAL_FER /\ prevEma = INITIAL_FER
    /\ busy = FALSE /\ interval = NoTimer /\ pendingEnable = {}
    /\ mediaStream = FALSE /\ cycles = <<>> /\ faceSteps = 0
    /\ ferEvent = NoEvent
    /\ micEnabled = FALSE /\ minVad = <<1, 5>> /\ msState = "none"
    /\ serPending = 0 /\ smoothedSer = Uniform
    /\ voiceFer = [pos |-> <<1, 3>>, neu |-> <<1, 3>>, fru |-> <<1, 3>>, vad |-> Zero]
    /\ fusedFer = Uniform /\ offlineWarned = FALSE
    /\ voiceSteps = 0 /\ serEvent = NoEvent
    /\ nIn \in {Vec(p, n, f) : p \in NormInputs, n \in NormInputs, f \in NormInputs}
    /\ nOut = NoOutput
    /\ alpha = PRESETS["baseline"].alpha /\ beta = PRESETS["baseline"].beta
    /\ gamma = PRESETS["baseline"].gamma /\ preset = "baseline" /\ rewardCall = NoOutput
    /\ dim = 2 /\ contexts = [a \in ArmIds |-> NoContext] /\ updates = 0
    /\ lastCall = NoOutput
    /\ sessionId = FALSE /\ currentQuestion = FALSE /\ currentDifficulty = 2
    /\ isLoadingQuestion = FALSE /\ isSubmitting = FALSE /\ turn = 0 /\ mastery = Zero
    /\ accuracyHistory = <<>> /\ engagementHistory = <<>> /\ rewardHistory = <<>>
    /\ actionHistory = <<>> /\ difficultyHistory = <<>>
    /\ startPending = FALSE /\ loadPending = 0 /\ submitPending = <<>>
    /\ reloadPending = 0

\* const out = normalizeFer(vec)
Normalize ==
    /\ nOut = NoOutput
    /\ nOut' = normalizeFer(nIn)
    /\ UNCHANGED <<micVars, faceVars, voiceVars, nIn, rewardVars, banditVars, storeVars>>

NormNext == Normalize

SpecNormalize == NormInit /\ [][NormNext]_vars

----------------------------------------------------------------------------
(* The reward weights store and computeReward *)

\* arguments given to setWeights: any numbers (the store takes them as they
\* are)
CustomWeights ==
    { [alpha |-> <<2, 1>>, beta |-> Zero, gamma |-> <<1, 10>>],
      [alpha |-> <<-1, 1>>, beta |-> <<3, 10>>, gamma |-> <<1, 2>>] }

PresetNames == {"baseline", "aggressive", "conservative", "custom"}

\* arguments of computeReward
CorrectInputs == {Zero, One}
EngagementInputs == {<<-2, 1>>, <<-1, 1>>, <<-1, 2>>, Zero, <<1, 2>>, One, <<2, 1>>}
DeltaInputs == {<<-1, 1>>, <<-1, 2>>, Zero, <<1, 2>>, One, <<3, 2>>}

\* setWeights(weights)
SetWeights ==
    /\ \E w \in CustomWeights :
         /\ alpha' = w.alpha /\ beta' = w.beta /\ gamma' = w.gamma
    /\ preset' = "custom"
    /\ UNCHANGED rewardCall
    /\ UNCHANGED <<micVars, faceVars, voiceVars, normVars, banditVars, storeVars>>

\* setPreset(preset)
SetPreset ==
    /\ \E name \in PresetNames :
         IF name = "custom"
         THEN preset' = name /\ UNCHANGED <<alpha, beta, gamma>>
         ELSE /\ alpha' = PRESETS[name].alpha /\ beta' = PRESETS[name].beta
              /\ gamma' = PRESETS[name].gamma /\ preset' = name
    /\ UNCHANGED rewardCall
    /\ UNCHANGED <<micVars, faceVars, voiceVars, normVars, banditVars, storeVars>>

\* resetToBaseline()
ResetToBaseline ==
    /\ alpha' = PRESETS["baseline"].alpha /\ beta' = PRESETS["baseline"].beta
    /\ gamma' = PRESETS["baseline"].gamma /\ preset' = "baseline"
    /\ UNCHANGED rewardCall
    /\ UNCHANGED <<micVars, faceVars, voiceVars, normVars, banditVars, storeVars>>

\* a call computeReward(correct, engagement, deltaM)
ComputeReward ==
    /\ \E c \in CorrectInputs, e \in EngagementInputs, dm \in DeltaInputs :
         rewardCall' = [correct |-> c, engagement |-> e, deltaM |-> dm,
                        out |-> computeReward([alpha |-> alpha, beta |-> beta,
                                               gamma |-> gamma], c, e, dm)]
    /\ UNCHANGED <<alpha, beta, gamma, preset>>
    /\ UNCHANGED <<micVars, faceVars, voiceVars, normVars, banditVars, storeVars>>

RewardNext ==
    \/ SetWeights
    \/ SetPreset
    \/ ResetToBaseline
    \/ ComputeReward

SpecReward == Init /\ [][RewardNext]_vars

----------------------------------------------------------------------------
(* One LinUCB instance of dimension 2, as the self-check builds it *)

MaxUpdates == 2                  \* update calls per run

\* feature vectors of dimension dd, all finite: a unit vector, a vector with
\* every component positive, and a unit vector scaled by Big
FeatureVectors(dd) ==
    { [i \in 1..dd |-> IF i = 1 THEN One ELSE Zero],
      [i \in 1..dd |-> IF i = 1 THEN <<1, 2>> ELSE One],
      [i \in 1..dd |-> IF i = 1 THEN Big ELSE Zero] }
Rewards == {<<1, 2>>}

Existing(ctxs) == {a \in DOMAIN ctxs : ctxs[a] # NoContext}

\* selectArm(features, armId)
SelectArm ==
    /\ \E armId \in ArmIds :
       \E features \in FeatureVectors(dim) :
         /\ contexts' = getOrCreateContext(contexts, armId, dim)
         /\ lastCall' = [op |-> "selectArm", armId |-> armId, features |-> features,
                         result |-> score(contexts'[armId], features, dim),
                         existed |-> Existing(contexts)]
    /\ UNCHANGED <<dim, updates>>
    /\ UNCHANGED <<micVars, faceVars, voiceVars, normVars, rewardVars, storeVars>>

\* update(features, reward, armId)
Update ==
    /\ updates < MaxUpdates
    /\ \E armId \in ArmIds :
       \E features \in FeatureVectors(dim) :
       \E reward \in Rewards :
         /\ contexts' = updated(contexts, features, reward, armId, dim)
         /\ lastCall' = [op |-> "update", armId |-> armId, features |-> features,
                         reward |-> reward, result |-> "done",
                         existed |-> Existing(contexts)]
    /\ updates' = updates + 1
    /\ UNCHANGED dim
    /\ UNCHANGED <<micVars, faceVars, voiceVars, normVars, rewardVars, storeVars>>

\* choosing the arm with the lower score
pickLowest(s0, s1) == IF RLt(s1, s0) THEN "arm1" ELSE "arm0"

\* arms[scores[0] > scores[1] ? 0 : 1]
pick(s0, s1) == IF RLt(s1, s0) THEN "arm0" ELSE "arm1"

\* one iteration of the loop of runLinucbSelfCheck: features in [0, 1], the
\* two scores, the selection, a reward from the range of the outcome, update
SelfCheckRound ==
    /\ dim = 2
    /\ updates < MaxUpdates
    /\ \E features \in {f \in FeatureVectors(dim) : RLeq(f[1], One)} :
       \E created \in {getOrCreateContext(getOrCreateContext(contexts, "arm0", dim),
                                          "arm1", dim)} :
       \E s0 \in {score(created["arm0"], features, dim)} :
       \E s1 \in {score(created["arm1"], features, dim)} :
         LET optimalArm == IF RLt(<<1, 2>>, features[1]) THEN "arm0" ELSE "arm1"
             selectedArm == pick(s0, s1)
             reward == IF selectedArm = optimalArm THEN <<7, 10>> ELSE <<3, 10>>
         IN  /\ contexts' = updated(created, features, reward, selectedArm, dim)
             /\ lastCall' = [op |-> "round", features |-> features,
                             scores |-> <<s0, s1>>, selectedArm |-> selectedArm,
                             reward |-> reward, existed |-> Existing(contexts)]
    /\ updates' = updates + 1
    /\ UNCHANGED dim
    /\ UNCHANGED <<micVars, faceVars, voiceVars, normVars, rewardVars, storeVars>>

BanditNext ==
    \/ SelectArm
    \/ Update
    \/ SelfCheckRound

SpecBandit == Init /\ [][BanditNext]_vars

----------------------------------------------------------------------------
(* LinUCB instances of any dimension *)

MaxDim == 3

\* new LinUCB(d, 1.0)
Construct ==
    /\ \E dd \in 1..MaxDim : dim' = dd
    /\ contexts' = [a \in ArmIds |-> NoContext]
    /\ updates' = 0
    /\ lastCall' = [op |-> "new"]
    /\ UNCHANGED <<micVars, faceVars, voiceVars, normVars, rewardVars, storeVars>>

BanditDimNext ==
    \/ Construct
    \/ SelectArm
    \/ Update

SpecBanditDim == Init /\ [][BanditDimNext]_vars

----------------------------------------------------------------------------
(* The session store: startSession, loadNextQuestion, submitAnswer,      *)
(* endSession, resetSession                                               *)

MaxTurns == 2                    \* turns recorded per session
MaxLoads == 2                    \* loadNextQuestion requests in flight

\* answers of apiClient.submit: {mastery, reward (may be absent),
\* next_action.diff_delta}
SubmitResponses ==
    { [mastery |-> <<1, 2>>, hasReward |-> h, reward |-> One, diff_delta |-> dd] :
        h \in BOOLEAN, dd \in {0, 1} }

\* the fer argument of submitAnswer
SubmitFer == [positive |-> <<17, 50>>, neutral |-> <<33, 100>>, frustrated |-> <<33, 100>>]

\* computeEngagement(fer)
computeEngagement(f) == RSub(f.positive, f.frustrated)

\* computeMasteryGain(prevMastery, currentMastery)
computeMasteryGain(prevMastery, currentMastery) ==
    clamp01Reward(RSub(currentMastery, prevMastery))

\* the part of loadNextQuestion before `await apiClient.next`, called with
\* the store holding sid and loading
LoadCall(sid, loading) ==
    IF ~sid \/ loading
    THEN /\ isLoadingQuestion' = loading
         /\ loadPending' = loadPending
    ELSE /\ isLoadingQuestion' = TRUE
         /\ loadPending' = loadPending + 1

\* startSession up to `await apiClient.start(sessionId)`
StartSessionCall ==
    /\ ~startPending
    /\ startPending' = TRUE
    /\ UNCHANGED <<sessionId, currentQuestion, currentDifficulty, isLoadingQuestion,
                   isSubmitting, turn, mastery, accuracyHistory, engagementHistory,
                   rewardHistory, actionHistory, difficultyHistory, loadPending,
                   submitPending, reloadPending>>
    /\ UNCHANGED <<micVars, faceVars, voiceVars, normVars, rewardVars, banditVars>>

\* apiClient.start resolves: the set({...}) of startSession, then
\* loadNextQuestion up to its await; layout calls enable() when isActive
\* turns true
StartSessionResolve ==
    /\ startPending
    /\ loadPending < MaxLoads
    /\ startPending' = FALSE
    /\ sessionId' = TRUE
    /\ isActive' = TRUE
    /\ pendingEnable' = IF isActive THEN pendingEnable ELSE pendingEnable \cup {fer}
    /\ currentQuestion' = FALSE /\ currentDifficulty' = 2
    /\ turn' = 0 /\ mastery' = Zero
    /\ accuracyHistory' = <<>> /\ engagementHistory' = <<>> /\ rewardHistory' = <<>>
    /\ isSubmitting' = FALSE
    /\ LoadCall(TRUE, FALSE)
    /\ UNCHANGED <<actionHistory, difficultyHistory, submitPending, reloadPending>>
    /\ UNCHANGED <<fer, prevEma, busy, interval, mediaStream, cycles, faceSteps,
                   ferEvent>>
    /\ UNCHANGED <<micVars, voiceVars, normVars, rewardVars, banditVars>>

\* apiClient.start rejects: startSession rethrows, nothing is set
StartSessionReject ==
    /\ startPending
    /\ startPending' = FALSE
    /\ UNCHANGED <<sessionId, currentQuestion, currentDifficulty, isLoadingQuestion,
                   isSubmitting, turn, mastery, accuracyHistory, engagementHistory,
                   rewardHistory, actionHistory, difficultyHistory, loadPending,
                   submitPending, reloadPending>>
    /\ UNCHANGED <<micVars, faceVars, voiceVars, normVars, rewardVars, banditVars>>

\* apiClient.next resolves inside loadNextQuestion
LoadResolve ==
    /\ loadPending > 0
    /\ loadPending' = loadPending - 1
    /\ currentQuestion' = TRUE
    /\ \E difficulty \in {2, 3} : currentDifficulty' = difficulty
    /\ isLoadingQuestion' = FALSE
    /\ UNCHANGED <<sessionId, isSubmitting, turn, mastery, accuracyHistory,
                   engagementHistory, rewardHistory, actionHistory, difficultyHistory,
                   startPending, submitPending, reloadPending>>
    /\ UNCHANGED <<micVars, faceVars, voiceVars, normVars, rewardVars, banditVars>>

\* apiClient.next rejects inside loadNextQuestion
LoadReject ==
    /\ loadPending > 0
    /\ loadPending' = loadPending - 1
    /\ isLoadingQuestion' = FALSE
    /\ UNCHANGED <<sessionId, currentQuestion, currentDifficulty, isSubmitting, turn,
                   mastery, accuracyHistory, engagementHistory, rewardHistory,
                   actionHistory, difficultyHistory, startPending, submitPending,
                   reloadPending>>
    /\ UNCHANGED <<micVars, faceVars, voiceVars, normVars, rewardVars, banditVars>>

\* submitAnswer up to `await apiClient.submit(payload)`
SubmitCall ==
    /\ sessionId /\ currentQuestion /\ ~isSubmitting
    /\ turn < MaxTurns /\ Len(actionHistory) < MaxTurns
    /\ submitPending = <<>> /\ reloadPending < MaxLoads
    /\ isSubmitting' = TRUE
    /\ submitPending' = Append(submitPending, currentDifficulty)
    /\ UNCHANGED <<sessionId, currentQuestion, currentDifficulty, isLoadingQuestion,
                   turn, mastery, accuracyHistory, engagementHistory, rewardHistory,
                   actionHistory, difficultyHistory, startPending, loadPending,
                   reloadPending>>
    /\ UNCHANGED <<micVars, faceVars, voiceVars, normVars, rewardVars, banditVars>>

\* apiClient.submit resolves: the histories are extended, the difficulty is
\* moved, and submitAnswer waits 600 ms before loadNextQuestion
SubmitResolve ==
    /\ submitPending # <<>>
    /\ turn < MaxTurns /\ Len(actionHistory) < MaxTurns
    /\ \E response \in SubmitResponses, accuracy \in {Zero, One} :
         LET difficulty == Head(submitPending)
             engagement == computeEngagement(SubmitFer)
             deltaM == computeMasteryGain(mastery, response.mastery)
             computedReward == computeReward([alpha |-> alpha, beta |-> beta,
                                              gamma |-> gamma],
                                             accuracy, engagement, deltaM)
             finalReward == IF response.hasReward THEN response.reward
                            ELSE computedReward
         IN  /\ accuracyHistory' = Append(accuracyHistory, accuracy)
             /\ engagementHistory' = Append(engagementHistory, engagement)
             /\ rewardHistory' = Append(rewardHistory, finalReward)
             /\ actionHistory' = Append(actionHistory, response.diff_delta)
             /\ difficultyHistory' = Append(difficultyHistory, difficulty)
             /\ mastery' = response.mastery
             /\ currentDifficulty' =
                  IF difficulty + response.diff_delta > 5 THEN 5
                  ELSE IF difficulty + response.diff_delta < 1 THEN 1
                  ELSE difficulty + response.diff_delta
    /\ turn' = turn + 1
    /\ isSubmitting' = FALSE
    /\ submitPending' = Tail(submitPending)
    /\ reloadPending' = reloadPending + 1
    /\ UNCHANGED <<sessionId, currentQuestion, isLoadingQuestion, startPending,
                   loadPending>>
    /\ UNCHANGED <<micVars, faceVars, voiceVars, normVars, rewardVars, banditVars>>

\* apiClient.submit rejects: the catch block of submitAnswer
SubmitReject ==
    /\ submitPending # <<>>
    /\ submitPending' = Tail(submitPending)
    /\ isSubmitting' = FALSE
    /\ UNCHANGED <<sessionId, currentQuestion, currentDifficulty, isLoadingQuestion,
                   turn, mastery, accuracyHistory, engagementHistory, rewardHistory,
                   actionHistory, difficultyHistory, startPending, loadPending,
                   reloadPending>>
    /\ UNCHANGED <<micVars, faceVars, voiceVars, normVars, rewardVars, banditVars>>

\* the 600 ms delay of submitAnswer ends: loadNextQuestion up to its await
SubmitReload ==
    /\ reloadPending > 0
    /\ loadPending < MaxLoads
    /\ reloadPending' = reloadPending - 1
    /\ LoadCall(sessionId, isLoadingQuestion)
    /\ UNCHANGED <<sessionId, currentQuestion, currentDifficulty, isSubmitting, turn,
                   mastery, accuracyHistory, engagementHistory, rewardHistory,
                   actionHistory, difficultyHistory, startPending, submitPending>>
    /\ UNCHANGED <<micVars, faceVars, voiceVars, normVars, rewardVars, banditVars>>

\* endSession(): the summary is computed and isActive cleared; layout calls
\* disable() when isActive turns false
EndSession ==
    /\ isActive' = FALSE
    /\ interval' = IF isActive THEN NoTimer ELSE interval
    /\ mediaStream' = IF isActive THEN FALSE ELSE mediaStream
    /\ UNCHANGED <<fer, prevEma, busy, pendingEnable, cycles, faceSteps, ferEvent>>
    /\ UNCHANGED storeVars
    /\ UNCHANGED <<micVars, voiceVars, normVars, rewardVars, banditVars>>

\* resetSession()
ResetSession ==
    /\ sessionId' = FALSE
    /\ isActive' = FALSE
    /\ interval' = IF isActive THEN NoTimer ELSE interval
    /\ mediaStream' = IF isActive THEN FALSE ELSE mediaStream
    /\ currentQuestion' = FALSE /\ currentDifficulty' = 2
    /\ turn' = 0 /\ mastery' = Zero
    /\ accuracyHistory' = <<>> /\ engagementHistory' = <<>> /\ rewardHistory' = <<>>
    /\ actionHistory' = <<>> /\ difficultyHistory' = <<>>
    /\ isLoadingQuestion' = FALSE /\ isSubmitting' = FALSE
    /\ UNCHANGED <<startPending, loadPending, submitPending, reloadPending>>
    /\ UNCHANGED <<fer, prevEma, busy, pendingEnable, cycles, faceSteps, ferEvent>>
    /\ UNCHANGED <<micVars, voiceVars, normVars, rewardVars, banditVars>>

StoreNext ==
    \/ StartSessionCall
    \/ StartSessionResolve
    \/ StartSessionReject
    \/ LoadResolve
    \/ LoadReject
    \/ SubmitCall
    \/ SubmitResolve
    \/ SubmitReject
    \/ SubmitReload
    \/ EndSession
    \/ ResetSession

SpecStore == Init /\ [][StoreNext]_vars

----------------------------------------------------------------------------
(* Properties of MicStreamer, checked under SpecMic *)

Windows == 1..Len(metaOut)
Dispatched(m) == \E k \in 1..Len(chunkOut) : chunkOut[k] = m.seq
AllZero(sig) == sig.sumSquares = 0 /\ sig.peak = 0 /\ sig.sum = 0
Quiet(sig) == sig # NoSig /\ RmsBelow(sig, QuietRms)

\* C1: a window whose signature has rms, peak and mean all zero is reported
\* with duplicate = true and sent = false and is not handed to the chunk
\* handler, whatever the last signature and the duplicate counter were.
C1_SilentNeverSent ==
    \A i \in Windows :
        AllZero(metaOut[i].sig)
            => metaOut[i].duplicate /\ ~metaOut[i].sent /\ ~Dispatched(metaOut[i])

\* a silent window that arrived when the counter had already reached the limit
C1_Witness ==
    \E i \in Windows :
        /\ AllZero(metaOut[i].sig)
        /\ winPre[i].consecutiveDuplicates = maxConsecutiveDuplicates
        /\ winPre[i].lastSignature # NoSig

\* C2 as stated: once 5 windows in a row were skipped the next window is
\* dispatched whatever it is and resets the counter, so never more than 5
\* windows in a row are skipped.
C2_Original ==
    /\ skipRun <= maxConsecutiveDuplicates
    /\ \A i \in Windows :
          winPre[i].consecutiveDuplicates >= maxConsecutiveDuplicates
              => metaOut[i].sent /\ Dispatched(metaOut[i])

\* C2 (amended): once the duplicate counter has reached 5, the next window
\* that is not completely silent is dispatched whatever its duplicate status,
\* and that dispatch resets the counter; so never more than 5 windows that are
\* not completely silent are skipped in a row.
C2_AntiStarvation ==
    /\ dupSkipRun <= maxConsecutiveDuplicates
    /\ \A i \in Windows :
          (/\ winPre[i].consecutiveDuplicates >= maxConsecutiveDuplicates
           /\ ~AllZero(metaOut[i].sig))
              => /\ metaOut[i].sent /\ Dispatched(metaOut[i])
                 /\ (i = Len(metaOut) => consecutiveDuplicates = 0)

\* a window identical to its predecessor that was sent because of the limit
C2_Witness ==
    \E i \in Windows :
        /\ winPre[i].consecutiveDuplicates = maxConsecutiveDuplicates
        /\ winPre[i].lastSignature = metaOut[i].sig
        /\ metaOut[i].duplicate /\ metaOut[i].sent /\ Dispatched(metaOut[i])

\* C3: a window that is not quiet and has the signature of the window before
\* it is marked duplicate, not sent and not handed to the chunk handler, when
\* fewer than 5 duplicates in a row were skipped before it.
C3_IdenticalSkipped ==
    \A i \in Windows :
        (/\ winPre[i].lastSignature = metaOut[i].sig
         /\ ~Quiet(metaOut[i].sig)
         /\ winPre[i].consecutiveDuplicates < maxConsecutiveDuplicates)
            => metaOut[i].duplicate /\ ~metaOut[i].sent /\ ~Dispatched(metaOut[i])

\* the fifth identical loud window in a row is still skipped
C3_Witness ==
    \E i \in Windows :
        /\ winPre[i].lastSignature = metaOut[i].sig
        /\ ~Quiet(metaOut[i].sig)
        /\ winPre[i].consecutiveDuplicates = maxConsecutiveDuplicates - 1
        /\ ~metaOut[i].sent

\* C4 as stated: a quiet window is never marked duplicate by the duplicate
\* rule, whatever the previous signature.
C4_Original ==
    \A i \in Windows :
        (Quiet(metaOut[i].sig) /\ ~AllZero(metaOut[i].sig)) => ~metaOut[i].duplicate

WithinBase(a, b) ==
    /\ DiffRmsWithin(a, b, duplicateThreshold)
    /\ DiffPeakWithin(a, b, duplicateThreshold)
    /\ DiffMeanWithin(a, b, duplicateThreshold)

\* C4 (amended): a window that is not completely silent is marked duplicate
\* exactly when a previous signature exists, the three differences are within
\* the base threshold and the two windows are not both quiet; so a quiet
\* window after a quiet one is never a duplicate, and a quiet window after a
\* window that is not quiet is one when it is within the base threshold.
C4_QuietPairNeverDuplicate ==
    \A i \in Windows :
        ~AllZero(metaOut[i].sig)
            => (metaOut[i].duplicate
                  <=> /\ winPre[i].lastSignature # NoSig
                      /\ WithinBase(metaOut[i].sig, winPre[i].lastSignature)
                      /\ ~(Quiet(metaOut[i].sig) /\ Quiet(winPre[i].lastSignature)))

\* a quiet window identical to the quiet window before it, sent as new
C4_Witness ==
    \E i \in Windows :
        /\ Quiet(metaOut[i].sig) /\ ~AllZero(metaOut[i].sig)
        /\ winPre[i].lastSignature = metaOut[i].sig
        /\ ~metaOut[i].duplicate /\ metaOut[i].sent

\* C13: stop() leaves every accumulation and duplicate-tracking field at its
\* initial value, so whenever the streamer is not running these fields are
\* clean, and the window that gets sequence number 1 finds no previous
\* signature and a zero duplicate counter: it is marked duplicate only when it
\* is silent and it is never force-sent.
C13_StopResets ==
    /\ micPc # "running"
         => /\ buffer = <<>> /\ samplesCollected = 0 /\ chunkSeq = 0
            /\ lastSignature = NoSig /\ consecutiveDuplicates = 0
    /\ \A i \in Windows :
         metaOut[i].seq = 1
            => /\ winPre[i].lastSignature = NoSig
               /\ winPre[i].consecutiveDuplicates = 0
               /\ metaOut[i].duplicate => AllZero(metaOut[i].sig)

\* the first window after a stop() that found a signature and a running
\* duplicate count, followed by start(), was dispatched with number 1
C13_Witness ==
    /\ lastStop = [phase |-> "restarted", dirty |-> TRUE]
    /\ metaOut # <<>>
    /\ metaOut[1].seq = 1 /\ metaOut[1].sent

RECURSIVE SentSeqs(_)
SentSeqs(m) ==
    IF m = <<>> THEN <<>>
    ELSE (IF Head(m).sent THEN <<Head(m).seq>> ELSE <<>>) \o SentSeqs(Tail(m))

\* C18: every window of a callback has exactly one metadata record, the
\* records carry consecutive sequence numbers that continue the numbering of
\* the earlier callbacks, and the chunk handler is called for exactly the
\* records with sent = true, in order.
C18_MetaOncePerWindow ==
    /\ [](/\ Len(metaOut) = Len(winPre)
          /\ \A i \in Windows : metaOut[i].seq = chunkSeq - Len(metaOut) + i
          /\ chunkOut = SentSeqs(metaOut))
    /\ [][ (processor /\ processor') => chunkSeq' = chunkSeq + Len(winPre') ]_vars

\* the third or a later window was skipped as a duplicate: a record, no chunk
C18_Witness ==
    /\ Len(metaOut) = 1 /\ metaOut[1].seq >= 3
    /\ metaOut[1].duplicate /\ ~metaOut[1].sent /\ ~AllZero(metaOut[1].sig)
    /\ chunkOut = <<>>

\* C19: after every window the last-signature reference is that window's
\* signature, so each window is compared with the signature of the window
\* just before it, dispatched or not.
C19_SerialCursor ==
    /\ [](metaOut # <<>>
            => /\ lastSignature = metaOut[Len(metaOut)].sig
               /\ \A i \in Windows :
                    i > 1 => winPre[i].lastSignature = metaOut[i - 1].sig)
    /\ [][ (processor /\ processor' /\ winPre' # <<>>)
              => winPre'[1].lastSignature = lastSignature ]_vars

\* a window was compared with a skipped window that differs from the window
\* dispatched last
C19_Witness ==
    /\ winPre # <<>> /\ metaOut # <<>>
    /\ dupSkipRun >= 2
    /\ winPre[1].lastSignature # NoSig
    /\ winPre[1].lastSignature # metaOut[1].sig

\* C14: when stop() was the last call made on the streamer, the stream is
\* released and no processor is installed.
C14_Original == lastStop.phase = "stopped" => (~stream /\ ~processor)

----------------------------------------------------------------------------
(* Properties of the sample queue, checked under SpecMicFlow *)

RECURSIVE Flat(_)
Flat(q) == IF q = <<>> THEN <<>> ELSE Head(q) \o Flat(Tail(q))

\* C17 as stated: every extracted window holds ceil(nativeRate * chunkSeconds)
\* samples.
C17_Original == \A i \in 1..Len(windowOut) : Len(windowOut[i]) = Ceil(WindowProduct)

\* C17 (amended): a window of floor(nativeRate * chunkSeconds) samples is
\* extracted each time the count reaches that number, so fewer than that many
\* stay queued after a callback; the sample counter equals the number of
\* queued samples; and in every callback the queued samples followed by the
\* new frame equal the extracted windows followed by the new queue.
C17_NoSampleLost ==
    /\ [](/\ samplesCollected = Len(Flat(buffer))
          /\ samplesCollected < Floor(WindowProduct)
          /\ \A i \in 1..Len(windowOut) : Len(windowOut[i]) = Floor(WindowProduct))
    /\ [][ (processor /\ processor')
             => /\ \E frame \in Frames :
                     Flat(buffer) \o frame = Flat(windowOut') \o Flat(buffer')
                /\ Len(windowOut') = (samplesCollected + FrameLen) \div Floor(WindowProduct)
                /\ Len(windowOut') = Len(metaOut') ]_vars

\* a callback extracted a window and left a remainder that is part of a frame
C17_Witness ==
    /\ windowOut # <<>>
    /\ samplesCollected > 0
    /\ buffer # <<>> /\ Len(Head(buffer)) < FrameLen

----------------------------------------------------------------------------
(* Properties of the face pipeline, checked under SpecFace *)

\* C8: at most one face-inference cycle awaits the classifier at any time,
\* and while one does, a step that does not end it (a timer tick, disable,
\* enable) changes neither the smoother, the published vector nor the busy
\* flag and starts no second cycle.
C8_SingleInFlight ==
    [][ /\ Len(cycles') <= 1
        /\ (cycles # <<>> /\ cycles' = cycles)
              => UNCHANGED <<fer, prevEma, busy, faceSteps>> ]_vars

\* a tick was refused while the second cycle of the run was in flight
C8_Witness ==
    /\ ferEvent.kind = "skipped"
    /\ Len(cycles) = 1 /\ busy
    /\ faceSteps >= 1

\* C9: whenever no cycle is in flight the busy flag is clear, whatever the
\* last cycle did (no bounding box, no classifier answer, exception), so the
\* next timer tick is not refused.
C9_BusyClearedAfterCycle == (cycles = <<>>) => ~busy

\* a new cycle was started by the tick that followed a failed cycle
C9_Witness ==
    /\ ferEvent.kind = "started"
    /\ ferEvent.after \in {"drift", "noface"}

\* C10: after a failed cycle the smoother takes no EMA step and the published
\* vector is the previous smoothed output moved by the random step of that
\* cycle and re-normalized.
C10_Original ==
    ferEvent.kind = "drift"
        => fer = normalizeFer(VecAdd(ferEvent.prev, ferEvent.rnd))

\* C15: while the session is inactive, so that disable() was the last of the
\* enable()/disable() calls, the camera stream is stopped and no inference
\* timer is running.
C15_Original == ~isActive => (interval = NoTimer /\ ~mediaStream)

----------------------------------------------------------------------------
(* Properties of the voice hook and the store, checked under SpecFusion *)

\* C5: whenever the microphone is disabled, the store's fusedFer is the
\* latest published face vector.
C5_Original == ~micEnabled => fusedFer = fer

\* C6: a voice response whose VAD is below minVad writes the face vector as
\* fusedFer and leaves the voice smoother's state as it was.
C6_LowVadFaceOnly ==
    [][ (/\ serPending' < serPending
         /\ serEvent'.kind = "resolved"
         /\ RLt(voiceFer'.vad, minVad))
            => (fusedFer' = fer /\ smoothedSer' = smoothedSer) ]_vars

\* a low-VAD response was processed after the voice smoother and the face
\* vector had both moved away from their initial values
C6_Witness ==
    /\ serEvent.kind = "resolved" /\ ~serEvent.voiced
    /\ RLt(voiceFer.vad, minVad)
    /\ smoothedSer # Uniform /\ fer # INITIAL_FER
    /\ fusedFer = fer

\* C7: a rejected voice request notifies the user exactly when it opens a
\* failure episode: when the outcome before it was not a failure.
C7_Original ==
    serEvent.kind = "rejected"
        => (serEvent.toasted <=> serEvent.after \notin {"rejected", "micfail"})

\* C16: when the microphone has been enabled and no voice answer has been
\* processed since, the voice smoother holds the initial uniform vector.
C16_Original == (micEnabled /\ serEvent = NoEvent) => smoothedSer = Uniform

\* C29: while voice stays disabled no step changes the stored voice reading
\* or the fused vector, and no notification is raised.
C29_Original ==
    [][ (~micEnabled /\ ~micEnabled')
          => /\ voiceFer' = voiceFer
             /\ fusedFer' = fusedFer
             /\ ~(serEvent' # serEvent /\ serEvent'.kind = "rejected"
                    /\ serEvent'.toasted) ]_vars

----------------------------------------------------------------------------
(* Properties of the voice hook with malformed answers, under SpecVoice *)

InUnit(x) == RLeq(Zero, x) /\ RLeq(x, One)
Malformed(res) == ~(InUnit(res.pos) /\ InUnit(res.neu) /\ InUnit(res.fru))

\* C11: a voice answer with a component that is NaN, infinite or outside
\* [0,1] is discarded like a failed request: the voice smoother keeps its
\* value and the fused vector written is the face vector.
C11_Original ==
    [][ (/\ serPending' < serPending
         /\ serEvent'.kind = "resolved"
         /\ Malformed(voiceFer'))
            => (smoothedSer' = smoothedSer /\ fusedFer' = fer) ]_vars

\* C12: the smoothed face vector, the smoothed voice vector and the fused
\* vector of the store each have non-negative components that sum to 1.
C12_Original ==
    /\ IsDistribution(prevEma)
    /\ IsDistribution(smoothedSer)
    /\ IsDistribution(fusedFer)


----------------------------------------------------------------------------
(* Properties of normalizeFer, checked under SpecNormalize *)

\* x cut to the unit interval, not-a-number and the infinities counted as 0
Clamped(x) ==
    IF x \in {NaN, PosInf, NegInf} \/ x[1] <= 0 THEN Zero
    ELSE IF x[1] >= x[2] THEN One
    ELSE x

\* C20: normalizeFer returns a value for every argument; with every component
\* cut to [0,1] (not-a-number and the infinities as 0), the result is exactly
\* the uniform vector when the cut components sum to at most 0 and otherwise
\* each cut component over their sum; its components are finite, not negative
\* and sum to 1.
C20_NormalizeTotal ==
    nOut # NoOutput =>
        LET p == Clamped(nIn.pos)
            n == Clamped(nIn.neu)
            f == Clamped(nIn.fru)
            total == RAdd(RAdd(p, n), f)
        IN  /\ IsFinite(nOut.pos) /\ IsFinite(nOut.neu) /\ IsFinite(nOut.fru)
            /\ IsDistribution(nOut)
            /\ total[1] <= 0 => nOut = Uniform
            /\ total[1] > 0 => /\ RMul(nOut.pos, total) = p
                               /\ RMul(nOut.neu, total) = n
                               /\ RMul(nOut.fru, total) = f

\* a call on (NaN, +Infinity, 3/2): two components count as 0, the third is
\* cut to 1
C20_Witness ==
    /\ nIn = Vec(NaN, PosInf, <<3, 2>>)
    /\ nOut = Vec(Zero, Zero, One)


----------------------------------------------------------------------------
(* Properties of the fusion step, checked under SpecBlend *)

\* a * x + (1 - a) * y for one component
Mix(a, x, y) == RAdd(RMul(a, x), RMul(RSub(One, a), y))

\* C21: when a response arrives while voice is enabled and its vad is at least
\* minVad, the voice smoother becomes 0.7 * old + 0.3 * reading per component
\* and the fused vector is lambda * face + (1 - lambda) * smoothed per
\* component over the sum of the three, with lambda cut to [0,1] and the face
\* vector the one published at that moment; when that sum is at most 0 the
\* fused vector is uniform.
C21_FusedBlend ==
    [][ (/\ micEnabled /\ serPending' = serPending - 1
         /\ serEvent'.kind = "resolved"
         /\ RLeq(minVad, voiceFer'.vad))
          => \A lam \in {IF RLeq(FUSION_LAMBDA, Zero) THEN Zero
                         ELSE IF RLeq(One, FUSION_LAMBDA) THEN One
                         ELSE FUSION_LAMBDA} :
             \A sm \in {Vec(Mix(<<7, 10>>, smoothedSer.pos, voiceFer'.pos),
                            Mix(<<7, 10>>, smoothedSer.neu, voiceFer'.neu),
                            Mix(<<7, 10>>, smoothedSer.fru, voiceFer'.fru))} :
             \A b \in {Vec(Mix(lam, fer.pos, sm.pos), Mix(lam, fer.neu, sm.neu),
                           Mix(lam, fer.fru, sm.fru))} :
             \A total \in {RAdd(RAdd(b.pos, b.neu), b.fru)} :
                 /\ smoothedSer' = sm
                 /\ RLeq(total, Zero) => fusedFer' = Uniform
                 /\ RLt(Zero, total)
                      => fusedFer' = Vec(RDiv(b.pos, total), RDiv(b.neu, total),
                                         RDiv(b.fru, total)) ]_vars

\* a voiced answer was fused with a face vector published after the start
C21_Witness ==
    /\ micEnabled /\ serEvent = [kind |-> "resolved", voiced |-> TRUE]
    /\ fer # INITIAL_FER
    /\ smoothedSer # Uniform
    /\ fusedFer # fer /\ fusedFer # Uniform /\ fusedFer # smoothedSer
    /\ RMul(fusedFer.pos, VecSum(Blend(FUSION_LAMBDA, fer, smoothedSer)))
         = Mix(FUSION_LAMBDA, fer.pos, smoothedSer.pos)


----------------------------------------------------------------------------
(* Properties of the reward, checked under SpecReward *)

\* x cut to the interval from lo to hi (finite numbers)
Cut(lo, hi, x) == IF RLt(x, lo) THEN lo ELSE IF RLt(hi, x) THEN hi ELSE x

\* C22: a computeReward call returns alpha * correct + beta * e + gamma * d
\* with the weights the store holds at the call, e the engagement cut to
\* [-1,1] and d the mastery gain cut to [0,1], so a negative gain adds 0; with
\* the baseline weights the call (1, 0, 0) returns 1 and (0, -1, 1) returns 0.2.
C22_RewardFormula ==
    [][ (rewardCall' # rewardCall)
          => \A c \in {rewardCall'} :
                /\ c.out = RAdd(RAdd(RMul(alpha, c.correct),
                                     RMul(beta, Cut(<<-1, 1>>, One, c.engagement))),
                                RMul(gamma, Cut(Zero, One, c.deltaM)))
                /\ RLt(c.deltaM, Zero)
                     => c.out = RAdd(RMul(alpha, c.correct),
                                     RMul(beta, Cut(<<-1, 1>>, One, c.engagement)))
                /\ (preset = "baseline" /\ c.correct = One /\ c.engagement = Zero
                      /\ c.deltaM = Zero) => c.out = One
                /\ (preset = "baseline" /\ c.correct = Zero /\ c.engagement = <<-1, 1>>
                      /\ c.deltaM = One) => c.out = <<1, 5>> ]_vars

\* a call under the baseline weights with an engagement below -1 and a
\* mastery regression: 1 - 0.3 + 0
C22_Witness ==
    /\ preset = "baseline"
    /\ rewardCall = [correct |-> One, engagement |-> <<-2, 1>>, deltaM |-> <<-1, 2>>,
                     out |-> <<7, 10>>]

NonNegative(x) == RLeq(Zero, x)

\* C23: in every state of the reward weights store alpha, beta and gamma are
\* not negative, and under a preset name other than custom the three weights
\* are that preset's.
C23_Original ==
    /\ NonNegative(alpha) /\ NonNegative(beta) /\ NonNegative(gamma)
    /\ preset # "custom"
         => (/\ alpha = PRESETS[preset].alpha /\ beta = PRESETS[preset].beta
             /\ gamma = PRESETS[preset].gamma)


----------------------------------------------------------------------------
(* Properties of LinUCB, checked under SpecBandit *)

\* c * I for some c > 0
IsScaledIdentity(A) ==
    /\ RLt(Zero, A[1][1])
    /\ \A i \in 1..Len(A) : \A j \in 1..Len(A) :
         A[i][j] = IF i = j THEN A[1][1] ELSE Zero

IsZeroVector(b) == \A i \in 1..Len(b) : b[i] = Zero

\* C24: a context appears only in a call that names its arm, a context that
\* selectArm has just created holds a positive multiple of the identity
\* matrix and the zero vector, and an existing context is never removed.
C24_Original ==
    [][ \A a \in ArmIds :
          /\ (contexts[a] = NoContext /\ contexts'[a] # NoContext)
               => /\ lastCall'.op = "round" \/ lastCall'.armId = a
                  /\ lastCall'.op = "selectArm"
                       => /\ IsScaledIdentity(contexts'[a].A)
                          /\ IsZeroVector(contexts'[a].b)
          /\ contexts[a] # NoContext => contexts'[a] # NoContext ]_vars

\* C25: update(features, reward, arm) adds features[i] * features[j] to
\* A[i][j] and features[i] * reward to b[i] of the named arm (starting from
\* zeros when the arm is new) and leaves every other arm as it is; selectArm
\* leaves every existing context as it is.
C25_UpdateFrame ==
    [][ /\ (updates' = updates + 1 /\ lastCall'.op = "update")
          => \A c \in {lastCall'} :
               /\ \A i \in 1..dim :
                    /\ contexts'[c.armId].b[i]
                         = FAdd(IF contexts[c.armId] = NoContext THEN Zero
                                ELSE contexts[c.armId].b[i],
                                FMul(c.features[i], c.reward))
                    /\ \A j \in 1..dim :
                         contexts'[c.armId].A[i][j]
                           = FAdd(IF contexts[c.armId] = NoContext THEN Zero
                                  ELSE contexts[c.armId].A[i][j],
                                  FMul(c.features[i], c.features[j]))
               /\ \A o \in ArmIds \ {c.armId} : contexts'[o] = contexts[o]
        /\ (updates' = updates /\ lastCall'.op = "selectArm")
          => \A a \in ArmIds : contexts[a] # NoContext => contexts'[a] = contexts[a]
      ]_vars

\* an update of one arm while the other arm holds a different context
C25_Witness ==
    /\ lastCall # NoOutput /\ lastCall.op = "update"
    /\ lastCall.existed = ArmIds
    /\ lastCall.armId = "arm0"
    /\ contexts["arm0"] # contexts["arm1"]
    /\ ~IsZeroVector(contexts["arm1"].b)

\* C26: a selectArm call with finite features, after updates with finite
\* features and rewards, returns a number.
C26_Original ==
    (lastCall # NoOutput /\ lastCall.op = "selectArm")
       => lastCall.result # "threw" /\ ~IsNaN(lastCall.result)

\* C27: a round of the self-check selects arm0 when its score is the higher
\* one and arm1 when the score of arm1 is the higher one or the two are
\* equal, the scores being those of selectArm on the state before the round.
C27_HighestScore ==
    [][ (updates' = updates + 1 /\ lastCall'.op = "round")
          => \A c \in {lastCall'} :
             \A created \in {getOrCreateContext(getOrCreateContext(contexts, "arm0", dim),
                                                "arm1", dim)} :
               /\ c.scores = <<score(created["arm0"], c.features, dim),
                              score(created["arm1"], c.features, dim)>>
               /\ RLt(c.scores[2], c.scores[1]) => c.selectedArm = "arm0"
               /\ RLt(c.scores[1], c.scores[2]) => c.selectedArm = "arm1"
               /\ c.scores[1] = c.scores[2] => c.selectedArm = "arm1"
               /\ c.selectedArm \in ArmIds ]_vars

\* a round in which both arms existed and arm0 had the higher score
C27_Witness ==
    /\ lastCall # NoOutput /\ lastCall.op = "round"
    /\ lastCall.existed = ArmIds
    /\ RLt(lastCall.scores[2], lastCall.scores[1])
    /\ lastCall.selectedArm = "arm0"

----------------------------------------------------------------------------
(* Properties of LinUCB of any dimension, checked under SpecBanditDim *)

\* C28: for every dimension, selectArm returns a score and update completes.
C28_Original ==
    (lastCall # NoOutput /\ lastCall.op \in {"selectArm", "update"})
       => lastCall.result # "threw"


----------------------------------------------------------------------------
(* Properties of the session store, checked under SpecStore *)

\* C30: in every state of the session store the five per-turn arrays all have
\* as many entries as turn counts.
C30_Original ==
    /\ Len(accuracyHistory) = turn
    /\ Len(engagementHistory) = turn
    /\ Len(rewardHistory) = turn
    /\ Len(actionHistory) = turn
    /\ Len(difficultyHistory) = turn

=============================================================================
